---------------------------- MODULE Spec2Model ----------------------------
(***************************************************************************)
(* Model of dsmr_backup/services/backup.py: the daily backup scheduler     *)
(* check() and the two archive operations create_partial() and             *)
(* create_full() it calls, with on_backup_failed().                        *)
(*                                                                         *)
(* Time.  The clock counts slots; SlotsPerDay slots make a calendar day.   *)
(* timezone.now() is an aware datetime in UTC (the module calls            *)
(* timezone.localtime() and timezone.make_aware(), which need USE_TZ), so  *)
(* x.date() of such a value is the UTC calendar date.  The user's time     *)
(* zone is a fixed offset tz, in slots, from UTC.                          *)
(*                                                                         *)
(* The calls of timezone.now() that check() makes without waiting for a   *)
(* dump process in between read the same slot.                             *)
(*                                                                         *)
(* Optional values.  Python's None is the empty sequence <<>> and a        *)
(* present value v is <<v>>.                                               *)
(***************************************************************************)
EXTENDS Integers, FiniteSets, Sequences, TLC

\* ------------------------------------------------------------------ bounds
SlotsPerDay == 3
MaxTime == 7
DaysPerMonth == 2

\* ------------------------------------------------------------- value sets
None == <<>>
Some(v) == <<v>>

Procs == {"backend", "second"}
TzOffsets == {0 - 1, 0, 1}
TimesOfDay == 0..(SlotsPerDay - 1)
Vendors == {"postgresql", "mysql", "sqlite", "oracle"}
ExitCodes == {0, 1}
\* BackupSettings.folder as path components: one relative, one absolute.
Folders == {<<"backups">>, <<"/", "mnt", "usb">>}
FsFaults == {"none", "makedirs", "open", "popen"}

VARIABLES
    now,        \* the clock: timezone.now(), in slots, UTC
    tz,         \* offset of the user's time zone from UTC, in slots
    vendor,     \* connection.vendor
    settings,   \* the persisted BackupSettings singleton
    pc,         \* pc[p]: where caller p's invocation of check() stands
    run,        \* run[p]: what that invocation has read and done so far
    dirs,       \* the backup directories that exist
    files,      \* the archive files on disk, each <<path, UTC day of its last write>>
    cycles      \* history: the local days on which an invocation's two dumps
                \* had both exited with 0, where the days are counted

vars == <<now, tz, vendor, settings, pc, run, dirs, files, cycles>>

\* ------------------------------------------------------------ time & dates
\* aware UTC datetime .date(): the UTC calendar day.
UtcDate(t) == t \div SlotsPerDay

\* timezone.localtime(t): the wall clock of the user's zone.
LocalTime(t) == t + tz

\* timezone.localtime(t).date(): the calendar day in the user's zone.
LocalDate(t) == LocalTime(t) \div SlotsPerDay

\* datetime.combine(d, time): naive datetime of day d at time of day tod; the
\* first argument's own time of day is dropped.
Combine(d, tod) == d * SlotsPerDay + tod

\* timezone.make_aware(naive): the instant, in UTC, of a wall-clock value.
MakeAware(naive) == naive - tz

\* formats.date_format(d, 'Y') and (d, 'm'): year and month of a day, joined.
YearMonth(d) == d \div DaysPerMonth

\* formats.date_format(d, 'l'): the weekday name of a day.
WeekdayName(d) == d % 7

\* formats.date_format(d, 'Y-m-d'): year and month, then the day of the month.
Ymd(d) == <<YearMonth(d), d % DaysPerMonth>>


\* ------------------------------------------------------- check(): the gates
\* Mutant of BackupsDisabled: the test of the flag inverted.
BackupsDisabledInverted(s) == s.daily_backup

\* line 27: "if not backup_settings.daily_backup: return".
BackupsDisabled(s) == ~s.daily_backup

\* line 31: latest_backup is set and latest_backup.date() == timezone.now().date().
\* Both are aware datetimes in UTC, so both dates are UTC calendar days.
AlreadyRunToday(s, t) ==
    /\ s.latest_backup # None
    /\ UtcDate(s.latest_backup[1]) = UtcDate(t)

\* lines 35-37: today's date in the user's zone, combined with backup_time and
\* made aware in the user's zone.
NextBackupTimestamp(s, t) == MakeAware(Combine(LocalDate(t), s.backup_time))

\* Mutant of NotYetDue: the test that a backup was made before left out.
NotYetDueAlways(s, t) == t < NextBackupTimestamp(s, t)

\* line 39: latest_backup is set and timezone.now() < next_backup_timestamp.
NotYetDue(s, t) ==
    /\ s.latest_backup # None
    /\ t < NextBackupTimestamp(s, t)

\* Mutant of Gate: check() returns while another invocation's dumps run.
GateExclusive(s, t) ==
    IF BackupsDisabled(s) THEN "disabled"
    ELSE IF \E q \in Procs : pc[q] \in {"partial_run", "full_run"}
         THEN "already_run"
    ELSE IF AlreadyRunToday(s, t) THEN "already_run"
    ELSE IF NotYetDue(s, t) THEN "not_due"
    ELSE "due"

\* lines 24-41: the gate at which check() returns, or "due" when it goes on.
Gate(s, t) ==
    IF BackupsDisabled(s) THEN "disabled"
    ELSE IF AlreadyRunToday(s, t) THEN "already_run"
    ELSE IF NotYetDue(s, t) THEN "not_due"
    ELSE "due"

\* ------------------------------------------------------------------- paths
\* get_backup_directory(): an absolute folder as it is, any other below the
\* parent of settings.BASE_DIR.
GetBackupDirectory(folder) ==
    IF Head(folder) = "/" THEN folder ELSE <<"/", "BASE_DIR/..">> \o folder

\* lines 46-51: <backup directory>/archive/<Y>/<m> of the local day `today`.
\* A directory is <<base directory, year-month>>; the base directory itself
\* carries the year-month None.
PartialFolder(folder, today) == <<GetBackupDirectory(folder), Some(YearMonth(today))>>
FullFolder(folder) == <<GetBackupDirectory(folder), None>>

\* Mutant of PartialBackupFile: the date left out of the file name.
PartialBackupFileUndated(dir, v, t) == <<dir, "partial-backup", v, <<0, 0>> >>

\* lines 142-144: dsmrreader-<vendor>-partial-backup-<Y-m-d>.sql.gz in `dir`,
\* the day being timezone.now().date(): the UTC day.
PartialBackupFile(dir, v, t) == <<dir, "partial-backup", v, Ymd(UtcDate(t))>>

\* lines 81-83: dsmrreader-<vendor>-backup-<weekday name>.sql.gz in `dir`.
FullBackupFile(dir, v, t) == <<dir, "backup", v, WeekdayName(UtcDate(t))>>

IsPartialFile(f) == f[2] = "partial-backup"

\* The filesystem: whether an archive is on disk, the day it was written
\* last, and gzip.open(file, 'wb'), which makes the file or empties it.
OnDisk(fs, file) == \E x \in fs : x[1] = file
WrittenOn(fs, file) == (CHOOSE x \in fs : x[1] = file)[2]
OpenForWriting(fs, file, t) ==
    {x \in fs : x[1] # file} \cup {<<file, UtcDate(t)>>}

\* ---------------------------------------------------------- dump commands
\* An argv element is <<flag, value>>: a bare flag has the value "", a bare
\* value the flag "".
\* Mutant of TableFlags: one --table flag, of the first table, however many
\* tables are asked for.
TableFlagsFirstOnly(tables) ==
    [i \in 1..(IF Len(tables) > 0 THEN 1 ELSE 0) |-> <<"--table=", tables[i]>>]

TableFlags(tables) == [i \in 1..Len(tables) |-> <<"--table=", tables[i]>>]
TableNames(tables) == [i \in 1..Len(tables) |-> <<"", tables[i]>>]

\* Mutant of PartialCommand: sqlite has a partial command as it has a full one.
PartialCommandWithSqlite(v, tables) ==
    IF v = "postgresql" THEN
        Some(<< <<"", "DSMRREADER_BACKUP_PG_DUMP">>, <<"", "NAME">>,
                <<"--data-only", "">>, <<"--host=", "HOST">>,
                <<"--user=", "USER">> >> \o TableFlags(tables))
    ELSE IF v = "mysql" THEN
        Some(<< <<"", "DSMRREADER_BACKUP_MYSQLDUMP">>, <<"--compress", "">>,
                <<"--compact", "">>, <<"--hex-blob", "">>,
                <<"--extended-insert", "">>, <<"--quick", "">>,
                <<"--host", "">>, <<"", "HOST">>, <<"--user", "">>,
                <<"", "USER">>, <<"--password=", "PASSWORD">>,
                <<"", "NAME">> >> \o TableNames(tables))
    ELSE IF v = "sqlite" THEN
        Some(<< <<"", "DSMRREADER_BACKUP_SQLITE">>, <<"", "NAME">>,
                <<"", ".dump">> >>)
    ELSE None

\* lines 148-175: the command of a partial dump, None for a vendor that has
\* none (NotImplementedError).
PartialCommand(v, tables) ==
    IF v = "postgresql" THEN
        Some(<< <<"", "DSMRREADER_BACKUP_PG_DUMP">>, <<"", "NAME">>,
                <<"--data-only", "">>, <<"--host=", "HOST">>,
                <<"--user=", "USER">> >> \o TableFlags(tables))
    ELSE IF v = "mysql" THEN
        Some(<< <<"", "DSMRREADER_BACKUP_MYSQLDUMP">>, <<"--compress", "">>,
                <<"--compact", "">>, <<"--hex-blob", "">>,
                <<"--extended-insert", "">>, <<"--quick", "">>,
                <<"--host", "">>, <<"", "HOST">>, <<"--user", "">>,
                <<"", "USER">>, <<"--password=", "PASSWORD">>,
                <<"", "NAME">> >> \o TableNames(tables))
    ELSE None

\* Mutant of FullCommand: the sqlite command is the else branch, taken for
\* every vendor that is neither postgresql nor mysql.
FullCommandDefault(v) ==
    IF v = "postgresql" THEN
        Some(<< <<"", "DSMRREADER_BACKUP_PG_DUMP">>, <<"", "NAME">>,
                <<"--host=", "HOST">>, <<"--user=", "USER">> >>)
    ELSE IF v = "mysql" THEN
        Some(<< <<"", "DSMRREADER_BACKUP_MYSQLDUMP">>, <<"--compress", "">>,
                <<"--hex-blob", "">>, <<"--extended-insert", "">>,
                <<"--quick", "">>, <<"--host", "">>, <<"", "HOST">>,
                <<"--user", "">>, <<"", "USER">>,
                <<"--password=", "PASSWORD">>, <<"", "NAME">> >>)
    ELSE Some(<< <<"", "DSMRREADER_BACKUP_SQLITE">>, <<"", "NAME">>,
                 <<"", ".dump">> >>)

\* lines 87-116: the command of a full dump, None for a vendor that has none.
FullCommand(v) ==
    IF v = "postgresql" THEN
        Some(<< <<"", "DSMRREADER_BACKUP_PG_DUMP">>, <<"", "NAME">>,
                <<"--host=", "HOST">>, <<"--user=", "USER">> >>)
    ELSE IF v = "mysql" THEN
        Some(<< <<"", "DSMRREADER_BACKUP_MYSQLDUMP">>, <<"--compress", "">>,
                <<"--hex-blob", "">>, <<"--extended-insert", "">>,
                <<"--quick", "">>, <<"--host", "">>, <<"", "HOST">>,
                <<"--user", "">>, <<"", "USER">>,
                <<"--password=", "PASSWORD">>, <<"", "NAME">> >>)
    ELSE IF v = "sqlite" THEN
        Some(<< <<"", "DSMRREADER_BACKUP_SQLITE">>, <<"", "NAME">>,
                <<"", ".dump">> >>)
    ELSE None

\* line 52: models_to_backup=(DayStatistics, ), by table name.
ModelsToBackup == <<"dsmr_stats_daystatistics">>

\* ----------------------------------------------- the dump process's handle
\* subprocess.Popen.returncode is "set by poll() and wait()" and is None until
\* one of them has seen the child end; shutil.copyfileobj, which reads the
\* child's output to its end, calls neither.  Leaving the `with` block of a
\* Popen calls wait().
\*
\* create_partial reads returncode at lines 187-189, after its `with` block
\* (lines 177-186) is left: it reads the child's exit code.
ReturncodeAfterWith(exitcode) == Some(exitcode)

\* create_full reads returncode at lines 128-130, inside its `with` block
\* (lines 118-133) and with no poll() or wait() before: it reads None,
\* whatever the exit code of the child will be.
ReturncodeInsideWith(exitcode) == None

\* lines 130 and 189: "if backup_process.returncode != 0".
DumpFailed(returncode) == returncode # Some(0)

\* ------------------------------------------------- the invocation record
\* What one invocation of check() has read and done: t the time it was made,
\* lb the latest_backup it read at line 24, today the local day of line 44,
\* the archive files it opened, the exit codes of its dump processes, how
\* create_partial and create_full ended ("returned" or "raised") and what they
\* returned, how many entries it logged at critical severity, how many
\* messages it showed on the dashboard, how many processes it launched, how
\* many directories it made and which archives it opened for writing that
\* were on disk already.  outcome is the gate it stopped at, the error it
\* raised, or "completed".  tables is the models_to_backup that create_partial
\* was called with and argv the command of the process launched last.
Blank ==
    [t |-> None, lb |-> None, outcome |-> "none", today |-> None,
     pfile |-> None, ffile |-> None, pexit |-> None, fexit |-> None,
     pres |-> "none", fres |-> "none", pval |-> None, fval |-> None,
     critical |-> 0, notified |-> 0, launched |-> 0, madedirs |-> 0,
     rewrote |-> {}, tables |-> None, argv |-> None]

\* Mutant of OnBackupFailed: the dashboard message left out.
OnBackupFailedSilent(rec) ==
    [rec EXCEPT !.critical = @ + 1, !.outcome = "IOError"]

\* lines 196-205, on_backup_failed: one critical log entry, one dashboard
\* message, then IOError.
OnBackupFailed(rec) ==
    [rec EXCEPT !.critical = @ + 1, !.notified = @ + 1, !.outcome = "IOError"]

\* Mutant of SettingsAfterCycle: latest_backup written however the cycle ended.
SettingsAfterCycleAlways(s, rec, t) == [s EXCEPT !.latest_backup = Some(t)]

\* lines 58-60, reached only when create_full returned: the settings are read
\* again, latest_backup is set to timezone.now() and the record saved.  An
\* error raised before leaves the stored record as it is.
SettingsAfterCycle(s, rec, t) ==
    IF rec.outcome = "completed"
    THEN [s EXCEPT !.latest_backup = Some(t)]
    ELSE s

\* ------------------------------------------------ the archive operations
\* Each yields [rec, pc, dirs, files]: the invocation record, where the
\* invocation stands ("done" when an error was raised) and the filesystem.
\*
\* lines 76-125 and 138-185, alike in create_full and create_partial: make the
\* folder if it is not there, name the file, choose the command or raise
\* NotImplementedError, open the archive 'wb' and launch the dump.  fault is
\* where the filesystem or the launch fails, if it does ("none" where no
\* filesystem call is made); which is "pfile" or
\* "ffile", res "pres" or "fres", running the pc of the running dump.
StartDump(rec0, fault, dir, file, cmd, which, res, running) ==
    LET made == IF dir \in dirs THEN 0 ELSE 1
        rec == [rec0 EXCEPT !.madedirs = @ + made]
        opened == [rec EXCEPT ![which] = Some(file),
                              !.rewrote = IF OnDisk(files, file)
                                          THEN @ \cup {file} ELSE @]
    IN  IF dir \notin dirs /\ fault = "makedirs"
        THEN [rec |-> [rec0 EXCEPT ![res] = "raised", !.outcome = "OSError"],
              pc |-> "done", dirs |-> dirs, files |-> files]
        ELSE IF cmd = None
        THEN [rec |-> [rec EXCEPT ![res] = "raised",
                                  !.outcome = "NotImplementedError"],
              pc |-> "done", dirs |-> dirs \cup {dir}, files |-> files]
        ELSE IF fault = "open"
        THEN [rec |-> [rec EXCEPT ![res] = "raised", !.outcome = "OSError"],
              pc |-> "done", dirs |-> dirs \cup {dir}, files |-> files]
        ELSE IF fault = "popen"
        THEN [rec |-> [opened EXCEPT ![res] = "raised", !.outcome = "OSError"],
              pc |-> "done", dirs |-> dirs \cup {dir},
              files |-> OpenForWriting(files, file, now)]
        ELSE [rec |-> [opened EXCEPT !.launched = @ + 1, !.argv = cmd],
              pc |-> running, dirs |-> dirs \cup {dir},
              files |-> OpenForWriting(files, file, now)]

\* create_partial(folder, models_to_backup) up to the launch of the dump,
\* lines 136-185.
CreatePartialOf(rec, fault, dir, tables) ==
    StartDump([rec EXCEPT !.tables = Some(tables)], fault, dir,
              PartialBackupFile(dir, vendor, now),
              PartialCommand(vendor, tables),
              "pfile", "pres", "partial_run")

\* check()'s call of create_partial, lines 45-53: the month's folder and the
\* day statistics.
CreatePartial(rec, fault) ==
    CreatePartialOf(rec, fault, PartialFolder(settings.folder, rec.today[1]),
                    ModelsToBackup)

\* Mutant of CreatePartialEnd: the return code is not looked at.
CreatePartialEndUnchecked(rec0, exitcode) ==
    [rec0 EXCEPT !.pexit = Some(exitcode), !.pres = "returned",
                 !.pval = rec0.pfile]

\* create_partial once the dump has ended with exitcode, lines 186-193: the
\* return code is read after the `with` block.
CreatePartialEnd(rec0, exitcode) ==
    LET rec == [rec0 EXCEPT !.pexit = Some(exitcode)]
    IN  IF DumpFailed(ReturncodeAfterWith(exitcode))
        THEN OnBackupFailed([rec EXCEPT !.pres = "raised"])
        ELSE [rec EXCEPT !.pres = "returned", !.pval = rec.pfile]

\* create_full up to the launch of the dump, lines 56 and 76-125.
CreateFull(rec, fault) ==
    LET dir == FullFolder(settings.folder)
    IN  StartDump(rec, fault, dir, FullBackupFile(dir, vendor, now),
                  FullCommand(vendor), "ffile", "fres", "full_run")

\* create_full once the dump has ended with exitcode, lines 126-133: the
\* return code is read inside the `with` block.  create_full has no return
\* statement: it returns None.  When it returns, check() is completed.
CreateFullEnd(rec0, exitcode) ==
    LET rec == [rec0 EXCEPT !.fexit = Some(exitcode)]
    IN  IF DumpFailed(ReturncodeInsideWith(exitcode))
        THEN OnBackupFailed([rec EXCEPT !.fres = "raised"])
        ELSE [rec EXCEPT !.fres = "returned", !.fval = None,
                         !.outcome = "completed"]

\* ------------------------------------------------------------------- Init
\* No invocation of check() runs and no backup directory exists.  The
\* settings store holds any daily_backup and backup_time and a latest_backup
\* that is null or a time up to now; the database is of any vendor and the
\* user in any of the time zones.
Init ==
    /\ now = SlotsPerDay
    /\ tz \in TzOffsets
    /\ vendor \in Vendors
    /\ settings \in [daily_backup : BOOLEAN,
                     backup_time : TimesOfDay,
                     latest_backup : {None} \cup {Some(t) : t \in 0..SlotsPerDay},
                     folder : {<<"backups">>}]
    /\ pc = [p \in Procs |-> "idle"]
    /\ run = [p \in Procs |-> Blank]
    /\ dirs = {}
    /\ files = {}
    /\ cycles = {}

\* ---------------------------------------------------------------- actions
\* An action is a stretch of check() that the clock does not move in: from
\* the call to the first dump running, from one dump's end to the next dump
\* running, from the last dump's end to the return.  A dump takes time.
\*
\* check() is called, lines 22-53 with create_partial's lines 138-185: the
\* settings are read and the gates passed or not; past the gates the partial
\* dump is launched.  The caller calls when its last invocation has ended.
Check(p, fault) ==
    /\ pc[p] \in {"idle", "done"}
    /\ LET rec == [Blank EXCEPT !.t = Some(now),
                                !.lb = settings.latest_backup,
                                !.outcome = Gate(settings, now)]
           r == CreatePartial([rec EXCEPT !.outcome = "running",
                                          !.today = Some(LocalDate(now))],
                              fault)
       IN  IF rec.outcome = "due"
           THEN /\ run' = [run EXCEPT ![p] = r.rec]
                /\ pc' = [pc EXCEPT ![p] = r.pc]
                /\ dirs' = r.dirs
                /\ files' = r.files
           ELSE /\ fault = "none"
                /\ run' = [run EXCEPT ![p] = rec]
                /\ pc' = [pc EXCEPT ![p] = "done"]
                /\ UNCHANGED <<dirs, files>>
    /\ UNCHANGED <<now, tz, vendor, settings, cycles>>

\* The partial dump ends, lines 186-193; when create_partial returns, check()
\* calls create_full, lines 56 and 76-125, which launches the full dump.
PartialDumpExits(p, exitcode, fault) ==
    /\ pc[p] = "partial_run"
    /\ LET rec == CreatePartialEnd(run[p], exitcode)
           r == CreateFull(rec, fault)
       IN  IF rec.pres = "raised"
           THEN /\ fault = "none"
                /\ run' = [run EXCEPT ![p] = rec]
                /\ pc' = [pc EXCEPT ![p] = "done"]
                /\ UNCHANGED <<dirs, files>>
           ELSE /\ run' = [run EXCEPT ![p] = r.rec]
                /\ pc' = [pc EXCEPT ![p] = r.pc]
                /\ dirs' = r.dirs
                /\ files' = r.files
    /\ UNCHANGED <<now, tz, vendor, settings, cycles>>

\* The full dump ends, lines 126-133; when create_full returns, check() stores
\* latest_backup, lines 58-60.
FullDumpEnd(p, exitcode) ==
    /\ pc[p] = "full_run"
    /\ LET rec == CreateFullEnd(run[p], exitcode)
       IN  /\ run' = [run EXCEPT ![p] = rec]
           /\ pc' = [pc EXCEPT ![p] = "done"]
           /\ settings' = SettingsAfterCycle(settings, rec, now)
    /\ UNCHANGED <<now, tz, vendor, dirs, files>>

FullDumpExits(p, exitcode) == FullDumpEnd(p, exitcode) /\ UNCHANGED cycles

\* Time passes.
Tick ==
    /\ now < MaxTime
    /\ now' = now + 1
    /\ UNCHANGED <<tz, vendor, settings, pc, run, dirs, files, cycles>>

\* The user switches daily_backup on or off in the settings store.
SetDailyBackup ==
    /\ settings' = [settings EXCEPT !.daily_backup = ~@]
    /\ UNCHANGED <<now, tz, vendor, pc, run, dirs, files, cycles>>

\* The user changes backup_time in the settings store.
SetBackupTime(bt) ==
    /\ bt # settings.backup_time
    /\ settings' = [settings EXCEPT !.backup_time = bt]
    /\ UNCHANGED <<now, tz, vendor, pc, run, dirs, files, cycles>>

\* The one periodic task runner calls check(), one invocation at a time.
Runner == "backend"

Next ==
    \/ \E fault \in FsFaults : Check(Runner, fault)
    \/ \E e \in ExitCodes, fault \in FsFaults : PartialDumpExits(Runner, e, fault)
    \/ \E e \in ExitCodes : FullDumpExits(Runner, e)
    \/ Tick
    \/ SetDailyBackup
    \/ \E bt \in TimesOfDay : SetBackupTime(bt)

Spec == Init /\ [][Next]_vars

\* ------------------------------------------- the operations called directly
\* create_partial and create_full are functions of the module that take the
\* folder as an argument: a caller other than check() calls them with a
\* folder and, for create_partial, any models_to_backup.
MaxTables == 2
Tables == {"dsmr_stats_daystatistics", "dsmr_consumption_electricity"}
TableLists == UNION {[1..n -> Tables] : n \in 0..MaxTables}

\* The settings store plays no part in the operations: one record.
InitOps ==
    /\ now = SlotsPerDay
    /\ tz = 0
    /\ vendor \in Vendors
    /\ settings = [daily_backup |-> TRUE, backup_time |-> 0,
                   latest_backup |-> None, folder |-> <<"backups">>]
    /\ pc = [p \in Procs |-> "idle"]
    /\ run = [p \in Procs |-> Blank]
    /\ dirs = {}
    /\ files = {}
    /\ cycles = {}

\* create_partial(folder, models_to_backup) is called, lines 136-185.
CallCreatePartial(p, tables, fault) ==
    /\ pc[p] \in {"idle", "done"}
    /\ LET rec == [Blank EXCEPT !.t = Some(now), !.outcome = "running"]
           r == CreatePartialOf(rec, fault, FullFolder(settings.folder), tables)
       IN  /\ fault \in {"makedirs"} => FullFolder(settings.folder) \notin dirs
           /\ run' = [run EXCEPT ![p] = r.rec]
           /\ pc' = [pc EXCEPT ![p] = r.pc]
           /\ dirs' = r.dirs
           /\ files' = r.files
    /\ UNCHANGED <<now, tz, vendor, settings, cycles>>

\* The partial dump ends and create_partial returns or raises, lines 186-193.
CreatePartialEnds(p, exitcode) ==
    /\ pc[p] = "partial_run"
    /\ LET rec == CreatePartialEnd(run[p], exitcode)
       IN  run' = [run EXCEPT ![p] = IF rec.pres = "returned"
                                     THEN [rec EXCEPT !.outcome = "returned"]
                                     ELSE rec]
    /\ pc' = [pc EXCEPT ![p] = "done"]
    /\ UNCHANGED <<now, tz, vendor, settings, dirs, files, cycles>>

\* create_full(folder) is called, lines 74-125.
CallCreateFull(p, fault) ==
    /\ pc[p] \in {"idle", "done"}
    /\ LET rec == [Blank EXCEPT !.t = Some(now), !.outcome = "running"]
           r == CreateFull(rec, fault)
       IN  /\ fault \in {"makedirs"} => FullFolder(settings.folder) \notin dirs
           /\ run' = [run EXCEPT ![p] = r.rec]
           /\ pc' = [pc EXCEPT ![p] = r.pc]
           /\ dirs' = r.dirs
           /\ files' = r.files
    /\ UNCHANGED <<now, tz, vendor, settings, cycles>>

\* The full dump ends and create_full returns or raises, lines 126-133.
CreateFullEnds(p, exitcode) ==
    /\ pc[p] = "full_run"
    /\ run' = [run EXCEPT ![p] = CreateFullEnd(run[p], exitcode)]
    /\ pc' = [pc EXCEPT ![p] = "done"]
    /\ UNCHANGED <<now, tz, vendor, settings, dirs, files, cycles>>

NextOps ==
    \/ \E tables \in TableLists, fault \in FsFaults :
           CallCreatePartial(Runner, tables, fault)
    \/ \E e \in ExitCodes : CreatePartialEnds(Runner, e)
    \/ \E fault \in FsFaults : CallCreateFull(Runner, fault)
    \/ \E e \in ExitCodes : CreateFullEnds(Runner, e)
    \/ Tick

SpecOps == InitOps /\ [][NextOps]_vars

\* --------------------------------------------------- two callers of check()
\* check() takes no lock and keeps no "running" mark: nothing in the module
\* stops a second caller from calling it while the first one's dumps run.
\* Backups are on and due at some time of the day, the database is one that
\* both dumps have a command for, and the filesystem does not fail.
InitTwo ==
    /\ now = SlotsPerDay
    /\ tz = 0
    /\ vendor = "postgresql"
    /\ settings \in [daily_backup : {TRUE},
                     backup_time : TimesOfDay,
                     latest_backup : {None, Some(0)},
                     folder : {<<"backups">>}]
    /\ pc = [p \in Procs |-> "idle"]
    /\ run = [p \in Procs |-> Blank]
    /\ dirs = {}
    /\ files = {}
    /\ cycles = {}

NextTwo ==
    \/ \E p \in Procs : Check(p, "none")
    \/ \E p \in Procs, e \in ExitCodes : PartialDumpExits(p, e, "none")
    \/ \E p \in Procs, e \in ExitCodes : FullDumpExits(p, e)
    \/ Tick

SpecTwo == InitTwo /\ [][NextTwo]_vars

\* ------------------------------------------- the settings store's other user
\* The user changes the backup folder in the settings store.
SetFolder(f) ==
    /\ f # settings.folder
    /\ settings' = [settings EXCEPT !.folder = f]
    /\ UNCHANGED <<now, tz, vendor, pc, run, dirs, files, cycles>>

\* One caller of check() and a user who changes daily_backup, backup_time and
\* folder at any time, also while the dumps of an invocation run.
InitStore ==
    /\ now = SlotsPerDay
    /\ tz = 0
    /\ vendor = "postgresql"
    /\ settings \in [daily_backup : {TRUE},
                     backup_time : {0},
                     latest_backup : {None, Some(0)},
                     folder : Folders]
    /\ pc = [p \in Procs |-> "idle"]
    /\ run = [p \in Procs |-> Blank]
    /\ dirs = {}
    /\ files = {}
    /\ cycles = {}

NextStore ==
    \/ Check(Runner, "none")
    \/ \E e \in ExitCodes : PartialDumpExits(Runner, e, "none")
    \/ \E e \in ExitCodes : FullDumpExits(Runner, e)
    \/ Tick
    \/ SetDailyBackup
    \/ \E bt \in TimesOfDay : SetBackupTime(bt)
    \/ \E f \in Folders : SetFolder(f)

SpecStore == InitStore /\ [][NextStore]_vars

\* ------------------------------------------------ the cycles of a local day
\* The full dump ends as in FullDumpExits, and the history takes the local day
\* when the invocation's two dumps have both exited with 0.
FullDumpExitsCounted(p, exitcode) ==
    /\ FullDumpEnd(p, exitcode)
    /\ cycles' = IF run[p].pexit = Some(0) /\ exitcode = 0
                 THEN cycles \cup {LocalDate(now)}
                 ELSE cycles

\* One caller of check() in any time zone, backups on and due at any time of
\* the day; the settings are left alone, the filesystem does not fail and
\* every dump exits with 0.
InitDaily ==
    /\ now = SlotsPerDay
    /\ tz \in TzOffsets
    /\ vendor \in {"postgresql", "mysql"}
    /\ settings \in [daily_backup : {TRUE},
                     backup_time : TimesOfDay,
                     latest_backup : {None} \cup {Some(t) : t \in 0..SlotsPerDay},
                     folder : {<<"backups">>}]
    /\ pc = [p \in Procs |-> "idle"]
    /\ run = [p \in Procs |-> Blank]
    /\ dirs = {}
    /\ files = {}
    /\ cycles = {}

NextDaily ==
    \/ Check(Runner, "none")
    \/ PartialDumpExits(Runner, 0, "none")
    \/ FullDumpExitsCounted(Runner, 0)
    \/ Tick

SpecDaily == InitDaily /\ [][NextDaily]_vars

\* ================================================================ claims
GateOutcomes == {"disabled", "already_run", "not_due"}
ErrorOutcomes == {"NotImplementedError", "IOError", "OSError"}

\* This step is an invocation of check() by p.
Invoked(p) == pc[p] \in {"idle", "done"} /\ run'[p] # run[p]

\* This step's invocation by p returned at a gate and did nothing.
NoEffect(p) ==
    /\ pc'[p] = "done"
    /\ run'[p].outcome \in GateOutcomes
    /\ run'[p].madedirs = 0
    /\ run'[p].launched = 0
    /\ run'[p].pfile = None /\ run'[p].ffile = None
    /\ UNCHANGED <<settings, dirs, files>>

\* This step's invocation by p passed the gates and called create_partial.
Proceeds(p) == run'[p].outcome \notin GateOutcomes /\ run'[p].today # None

\* C1: when an invocation of check() has raised in the partial or the full
\* dump (unsupported backend, failed dump, filesystem error), the stored
\* latest_backup is the one the invocation found.
C1_LatestBackupKeptOnError ==
    \A p \in Procs :
        (pc[p] = "done" /\ run[p].outcome \in ErrorOutcomes)
            => settings.latest_backup = run[p].lb

\* C1 witness: an invocation that found a latest_backup has raised in the
\* full dump.
C1_Witness ==
    \E p \in Procs :
        /\ pc[p] = "done" /\ run[p].outcome = "IOError"
        /\ run[p].fres = "raised" /\ run[p].lb # None

\* C2 (as claimed): an invocation that finds a latest_backup whose day in the
\* user's time zone is the current day in that zone is a no-op.
C2_NoopWhenBackupOfLocalToday ==
    \A p \in Procs :
        (/\ run[p].t # None /\ run[p].lb # None
         /\ LocalDate(run[p].lb[1]) = LocalDate(run[p].t[1]))
            => /\ pc[p] = "done"
               /\ run[p].outcome \in GateOutcomes
               /\ run[p].madedirs = 0 /\ run[p].launched = 0
               /\ run[p].pfile = None /\ run[p].ffile = None

\* C3 (as claimed): a dump that exits with code 0 makes create_partial and
\* create_full alike return the path of the archive.
C3_ZeroExitReturnsArchivePath ==
    \A p \in Procs :
        /\ run[p].pexit = Some(0)
              => (run[p].pres = "returned" /\ run[p].pval = run[p].pfile)
        /\ run[p].fexit = Some(0)
              => (run[p].fres = "returned" /\ run[p].fval = run[p].ffile)

\* C4: a dump that exits with another code than 0 ends create_partial and
\* create_full alike with one critical log entry, one dashboard message and
\* IOError raised; neither returns.
C4_NonZeroExitRaises ==
    \A p \in Procs :
        /\ (run[p].pexit # None /\ run[p].pexit # Some(0))
              => /\ pc[p] = "done" /\ run[p].pres = "raised"
                 /\ run[p].outcome = "IOError"
                 /\ run[p].critical = 1 /\ run[p].notified = 1
        /\ (run[p].fexit # None /\ run[p].fexit # Some(0))
              => /\ pc[p] = "done" /\ run[p].fres = "raised"
                 /\ run[p].outcome = "IOError"
                 /\ run[p].critical = 1 /\ run[p].notified = 1

\* C4 witness: the full dump of an invocation has exited with code 1.
C4_Witness ==
    \E p \in Procs : run[p].fexit = Some(1) /\ run[p].pexit = Some(0)

\* C5: with daily_backup off an invocation of check() does nothing: no
\* directory, no archive, no process, the settings as they were.
C5_DisabledIsNoop ==
    [][\A p \in Procs :
         (Invoked(p) /\ ~settings.daily_backup)
             => (NoEffect(p) /\ run'[p].outcome = "disabled")]_vars

\* C5 witness: an invocation stopped at the disabled gate although a backup
\* was due by latest_backup and backup_time.
C5_Witness ==
    \E p \in Procs :
        /\ pc[p] = "done" /\ run[p].outcome = "disabled"
        /\ run[p].t = Some(now)
        /\ ~AlreadyRunToday(settings, now) /\ ~NotYetDue(settings, now)

\* C6 (as claimed): with daily_backup on and a latest_backup that is not of
\* the current day of the user's time zone, an invocation before today's
\* backup_time is a no-op and one at or after it goes on to the dumps.
C6_TimeOfDayGate ==
    [][\A p \in Procs :
         (/\ Invoked(p) /\ settings.daily_backup
          /\ settings.latest_backup # None
          /\ LocalDate(settings.latest_backup[1]) # LocalDate(now))
             => IF now < NextBackupTimestamp(settings, now)
                THEN NoEffect(p)
                ELSE Proceeds(p)]_vars

\* C7: with daily_backup on and no latest_backup an invocation goes on to
\* the dumps, whatever backup_time and the time are.
C7_FirstRunBypass ==
    [][\A p \in Procs :
         (Invoked(p) /\ settings.daily_backup /\ settings.latest_backup = None)
             => Proceeds(p)]_vars

\* C7 witness: an invocation without latest_backup has passed the gates
\* before today's backup_time.
C7_Witness ==
    \E p \in Procs :
        /\ pc[p] = "partial_run" /\ run[p].lb = None /\ run[p].t = Some(now)
        /\ now < NextBackupTimestamp(settings, now)

\* C8 (as claimed): no invocation opens for writing a partial archive that is
\* on disk already.
C8_PartialNeverRewritten ==
    \A p \in Procs : \A f \in run[p].rewrote : ~IsPartialFile(f)

\* C8 (amended): a partial archive that is on disk is opened for writing again
\* only on the UTC day it was written.
C8_PartialRewrittenOnlySameDay ==
    [][\A p \in Procs :
         \A f \in run'[p].rewrote \ run[p].rewrote :
             IsPartialFile(f) => WrittenOn(files, f) = UtcDate(now)]_vars

\* C8 witness: an invocation has opened a partial archive that was on disk.
C8_Witness ==
    \E p \in Procs : \E f \in run[p].rewrote : IsPartialFile(f)

\* C9 (as claimed): after an invocation that raised in the dumps, the next
\* invocation, daily_backup being on, goes on to the dumps again.
C9_NextInvocationRetries ==
    [][\A p \in Procs :
         (/\ Invoked(p) /\ pc[p] = "done"
          /\ run[p].outcome \in ErrorOutcomes
          /\ settings.daily_backup)
             => Proceeds(p)]_vars

\* C9 (amended): it does so when there is no latest_backup or the time is at or
\* after the backup_time of the current day of the user's time zone.
C9_NextInvocationRetriesWhenDue ==
    [][\A p \in Procs :
         (/\ Invoked(p) /\ pc[p] = "done"
          /\ run[p].outcome \in ErrorOutcomes
          /\ settings.daily_backup
          /\ (settings.latest_backup = None
                \/ now >= NextBackupTimestamp(settings, now)))
             => Proceeds(p)]_vars

\* C9 witness: an invocation that found a latest_backup has passed the gates
\* and runs the partial dump into the archive that an earlier cycle, which
\* did not store latest_backup, left on disk.
C9_Witness ==
    \E p \in Procs :
        /\ pc[p] = "partial_run" /\ run[p].lb # None
        /\ run[p].pfile # None /\ run[p].pfile[1] \in run[p].rewrote
        /\ settings.latest_backup = run[p].lb

\* C10 (as claimed): when both dumps of an invocation have exited with code 0,
\* the cycle is completed and the stored latest_backup is the time the
\* invocation was made.
C10_LatestBackupIsInvocationTime ==
    \A p \in Procs :
        (pc[p] = "done" /\ run[p].pexit = Some(0) /\ run[p].fexit = Some(0))
            => (run[p].outcome = "completed"
                /\ settings.latest_backup = run[p].t)

\* ------------------------------------------------ the operations' callers
\* This step is a call of create_partial by p, from check() or directly.
CalledPartial(p) ==
    /\ pc[p] \in {"idle", "done"} /\ run'[p] # run[p]
    /\ run'[p].tables # None

\* This step is a direct call of create_full by p.
CalledFull(p) ==
    /\ pc[p] \in {"idle", "done"} /\ run'[p] # run[p]
    /\ run'[p].tables = None /\ run'[p].outcome \notin GateOutcomes

\* The engine has no dump strategy for the scope: a partial dump of sqlite or
\* of an unrecognised vendor, a full dump of an unrecognised vendor.
NoPartialStrategy == vendor \notin {"postgresql", "mysql"}
NoFullStrategy == vendor \notin {"postgresql", "mysql", "sqlite"}

\* C11 (as claimed): a call of create_partial or create_full for which the
\* engine has no dump strategy raises NotImplementedError and launches no dump
\* process.
C11_UnsupportedRaisesBeforeLaunch ==
    [][\A p \in Procs :
          (\/ CalledPartial(p) /\ NoPartialStrategy
           \/ CalledFull(p) /\ NoFullStrategy)
              => /\ pc'[p] = "done"
                 /\ run'[p].outcome = "NotImplementedError"
                 /\ run'[p].launched = 0]_vars

\* C11 (amended): a call of create_partial or create_full for which the engine
\* has no dump strategy launches no dump process and opens no archive; it
\* raises NotImplementedError, unless the folder is missing and making it
\* fails, which raises the filesystem's error before the vendor is looked at.
C11_UnsupportedRaisesAfterMakedirs ==
    [][\A p \in Procs :
          (\/ CalledPartial(p) /\ NoPartialStrategy
           \/ CalledFull(p) /\ NoFullStrategy)
              => /\ pc'[p] = "done"
                 /\ run'[p].launched = 0
                 /\ run'[p].pfile = None /\ run'[p].ffile = None
                 /\ files' = files
                 /\ \/ run'[p].outcome = "NotImplementedError"
                    \/ /\ run'[p].outcome = "OSError"
                       /\ run'[p].madedirs = 0
                       /\ dirs' = dirs
                       /\ FullFolder(settings.folder) \notin dirs]_vars

\* C11 witness: create_full, called for a vendor it has no command for, has
\* raised NotImplementedError and launched nothing.
C11_Witness ==
    \E p \in Procs :
        /\ NoFullStrategy
        /\ pc[p] = "done" /\ run[p].fres = "raised"
        /\ run[p].outcome = "NotImplementedError"
        /\ run[p].launched = 0

\* ------------------------------------------------------- command selection
\* The positions of argv that hold the flag, and those that hold the element.
FlagAt(argv, flag) == {i \in 1..Len(argv) : argv[i][1] = flag}
ElemAt(argv, elem) == {i \in 1..Len(argv) : argv[i] = elem}

\* What a command is made of besides table names: the configured programs,
\* the database's connection settings and sqlite's ".dump".
ConfiguredValues ==
    {"", "DSMRREADER_BACKUP_PG_DUMP", "DSMRREADER_BACKUP_MYSQLDUMP",
     "DSMRREADER_BACKUP_SQLITE", "NAME", "HOST", "USER", "PASSWORD", ".dump"}

\* C13: the command a dump is launched with is made of the configuration and
\* the requested tables only, and by vendor and scope: a postgresql full dump
\* has one --host= and one --user= flag and no --table= flag; a postgresql
\* partial dump has --data-only and one --table= flag per requested table, in
\* their order; a mysql partial dump ends with the requested table names,
\* right after the database name; a partial dump of sqlite or of another
\* vendor, and a full dump of another vendor, reach no command: once the
\* folder is there they raise NotImplementedError.
C13_CommandByVendorAndScope ==
    \A p \in Procs :
        LET rec == run[p]
            partial == rec.tables # None
            tables == IF partial THEN rec.tables[1] ELSE <<>>
            argv == rec.argv[1]
        IN  /\ rec.argv # None =>
                /\ \A i \in 1..Len(argv) :
                       argv[i][2] \in ConfiguredValues
                                          \cup {tables[k] : k \in 1..Len(tables)}
                /\ (vendor = "postgresql" /\ ~partial) =>
                       /\ Cardinality(ElemAt(argv, <<"--host=", "HOST">>)) = 1
                       /\ Cardinality(ElemAt(argv, <<"--user=", "USER">>)) = 1
                       /\ FlagAt(argv, "--table=") = {}
                /\ (vendor = "postgresql" /\ partial) =>
                       /\ Cardinality(FlagAt(argv, "--data-only")) = 1
                       /\ Cardinality(FlagAt(argv, "--table=")) = Len(tables)
                       /\ \A k \in 1..Len(tables) :
                              argv[Len(argv) - Len(tables) + k]
                                  = <<"--table=", tables[k]>>
                /\ (vendor = "mysql" /\ partial) =>
                       /\ Len(argv) > Len(tables)
                       /\ argv[Len(argv) - Len(tables)] = <<"", "NAME">>
                       /\ \A k \in 1..Len(tables) :
                              argv[Len(argv) - Len(tables) + k]
                                  = <<"", tables[k]>>
                /\ IF partial THEN ~NoPartialStrategy ELSE ~NoFullStrategy
            /\ (/\ rec.t # None
                /\ IF partial THEN NoPartialStrategy ELSE NoFullStrategy
                /\ (rec.madedirs = 1 \/ rec.outcome # "OSError")) =>
                   /\ rec.outcome = "NotImplementedError"
                   /\ rec.argv = None /\ rec.launched = 0

\* C13 witness: a partial dump of postgresql runs that was asked for two
\* different tables.
C13_Witness ==
    \E p \in Procs :
        /\ vendor = "postgresql" /\ pc[p] = "partial_run"
        /\ run[p].argv # None /\ run[p].tables # None
        /\ Len(run[p].tables[1]) = 2
        /\ run[p].tables[1][1] # run[p].tables[1][2]

\* -------------------------------------------------------------- two callers
Running(p) == pc[p] \in {"partial_run", "full_run"}

\* The stored record passes the three gates at the time it is.
GatesOpen ==
    /\ settings.daily_backup
    /\ \/ settings.latest_backup = None
       \/ /\ UtcDate(settings.latest_backup[1]) # UtcDate(now)
          /\ now >= MakeAware(Combine(LocalDate(now), settings.backup_time))

\* C12: nothing serializes check(): an invocation made while another
\* invocation's dumps run reads the same stored record, passes the gates that
\* the other passed as long as the record and the time allow, and launches
\* its own partial dump, into the archive the other one writes when the day
\* is the same.
C12_NoMutualExclusion ==
    [][\A p \in Procs :
          (/\ Invoked(p)
           /\ \E q \in Procs \ {p} : Running(q)
           /\ GatesOpen)
              => /\ Proceeds(p)
                 /\ run'[p].lb = settings.latest_backup
                 /\ pc'[p] = "partial_run"
                 /\ run'[p].launched = 1
                 /\ \A q \in Procs \ {p} :
                        (Running(q) /\ run[q].pfile = run'[p].pfile)
                            => run'[p].pfile[1] \in run'[p].rewrote]_vars

\* C12 witness: the dumps of two invocations run at once; both invocations
\* read the latest_backup that is still stored and both opened the same
\* partial archive.
C12_Witness ==
    /\ \A p \in Procs : Running(p) /\ run[p].lb = settings.latest_backup
    /\ run["backend"].pfile = run["second"].pfile
    /\ \E p \in Procs : run[p].rewrote # {}

\* ------------------------------------------------------ order of the steps
\* C14: in an invocation of check() the partial dump comes first: while it
\* runs nothing of the full dump exists; the full dump is started only when
\* create_partial has returned, its process having exited with 0; and
\* latest_backup changes only in the step that ends an invocation whose
\* create_partial and create_full have both returned, to the time of that
\* step, so at most once in an invocation and by nothing else.
C14_PartialThenFullThenWrite ==
    [][/\ \A p \in Procs :
             /\ pc'[p] = "partial_run"
                   => (run'[p].ffile = None /\ run'[p].fres = "none"
                       /\ run'[p].fexit = None)
             /\ (\/ pc'[p] = "full_run" \/ run'[p].ffile # None
                 \/ run'[p].fres # "none" \/ run'[p].fexit # None)
                   => (run'[p].pres = "returned" /\ run'[p].pexit = Some(0)
                       /\ run'[p].pval = run'[p].pfile)
       /\ settings'.latest_backup # settings.latest_backup
             => \E p \in Procs :
                    /\ pc[p] = "full_run" /\ pc'[p] = "done"
                    /\ run'[p].pres = "returned"
                    /\ run'[p].fres = "returned"
                    /\ run'[p].outcome = "completed"
                    /\ settings'.latest_backup = Some(now)]_vars

\* C14 witness: the full dump of an invocation runs, after its partial dump
\* exited with 0 and create_partial returned the archive.
C14_Witness ==
    \E p \in Procs :
        /\ pc[p] = "full_run" /\ run[p].launched = 2
        /\ run[p].pres = "returned" /\ run[p].pexit = Some(0)
        /\ run[p].ffile # None

C16_OneCyclePerLocalDay ==
    [][\A p \in Procs :
          (/\ pc[p] = "full_run" /\ pc'[p] = "done"
           /\ run'[p].pexit = Some(0) /\ run'[p].fexit = Some(0))
              => LocalDate(now) \notin cycles]_vars

\* ------------------------------------------------------------------ sqlite
\* C17 (as claimed): with sqlite every invocation of check() that passes the
\* gates raises NotImplementedError in create_partial; the full dump is never
\* started, no process is launched and latest_backup is never written; with
\* latest_backup null and daily_backup on, every invocation passes the gates.
C17_SqliteNeverBacksUp ==
    [][vendor = "sqlite" =>
          /\ settings'.latest_backup = settings.latest_backup
          /\ \A p \in Procs :
                 /\ pc'[p] \in {"idle", "done"}
                 /\ run'[p].launched = 0
                 /\ run'[p].ffile = None /\ run'[p].fres = "none"
                 /\ (Invoked(p) /\ Proceeds(p))
                       => /\ run'[p].pres = "raised"
                          /\ run'[p].outcome = "NotImplementedError"
                 /\ (/\ Invoked(p) /\ settings.daily_backup
                     /\ settings.latest_backup = None) => Proceeds(p)]_vars

\* C17 (amended): the same, but an invocation that passes the gates raises
\* the filesystem's error instead of NotImplementedError when the month's
\* folder is missing and making it fails.
C17_SqliteNeverBacksUpOrMakedirsFails ==
    [][vendor = "sqlite" =>
          /\ settings'.latest_backup = settings.latest_backup
          /\ \A p \in Procs :
                 /\ pc'[p] \in {"idle", "done"}
                 /\ run'[p].launched = 0
                 /\ run'[p].ffile = None /\ run'[p].fres = "none"
                 /\ (Invoked(p) /\ Proceeds(p))
                       => /\ run'[p].pres = "raised"
                          /\ run'[p].pfile = None
                          /\ files' = files
                          /\ \/ run'[p].outcome = "NotImplementedError"
                             \/ /\ run'[p].outcome = "OSError"
                                /\ run'[p].madedirs = 0
                                /\ dirs' = dirs
                 /\ (/\ Invoked(p) /\ settings.daily_backup
                     /\ settings.latest_backup = None) => Proceeds(p)]_vars

\* C17 witness: with sqlite and latest_backup still null, an invocation has
\* raised NotImplementedError that found the month's folder made already, by
\* an invocation before it.
C17_Witness ==
    \E p \in Procs :
        /\ vendor = "sqlite" /\ settings.latest_backup = None
        /\ pc[p] = "done" /\ run[p].lb = None
        /\ run[p].outcome = "NotImplementedError"
        /\ run[p].pres = "raised" /\ run[p].madedirs = 0

=============================================================================
